---- MODULE Spec2Model ----
(***************************************************************************)
(* Ensemble grid-propagation fire spread engine.                           *)
(*                                                                         *)
(*   src/pipeline/spread/baseline.py     initialize_grid,                  *)
(*                                       compute_spread_potential,         *)
(*                                       propagate_spread,                 *)
(*                                       run_baseline_spread               *)
(*   src/pipeline/spread/monte_carlo.py  perturb_weather,                  *)
(*                                       run_monte_carlo_ensemble          *)
(*                                                                         *)
(* Numbers.  The code computes in IEEE floats; the model computes in       *)
(* fixed point with three decimals: a quantity x of the code is the        *)
(* integer x * Scale here (wind 5 m/s is 5000, a weight 0.3 is 300, a      *)
(* potential 0.2417 is 241).  Divisions round towards minus infinity.      *)
(* NaN, which the code produces when it averages an empty ensemble, is a   *)
(* value of its own outside the range of every finite quantity.            *)
(*                                                                         *)
(* Random numbers.  numpy's global Mersenne Twister is modelled by a       *)
(* 16-state linear congruential generator: seeding sets the state from the *)
(* seed alone, every draw advances the state and returns one of four       *)
(* levels of the half-open interval [low, high).                           *)
(***************************************************************************)
EXTENDS Integers, Sequences, FiniteSets, TLC

VARIABLES
    \* the caller's inputs (monte_carlo.py:57-70, baseline.py:143-152)
    hotspots_df, wind_u, wind_v, temp, slope, rh,
    model_config, mc_config, n_ensemble, base_seed, n_timesteps,
    \* numpy's global generator state (np.random)
    np_random,
    \* control position of the call in progress
    pc,
    \* frame of run_monte_carlo_ensemble
    i, ensemble_results, perturbed,
    \* frame of run_baseline_spread
    bs_args, current_grid, max_grid, spread_potential, t, bs_return,
    \* what the caller receives, and the results of the calls completed so far
    result, returned,
    \* the perturb_weather calls made by the call in progress, in order
    perturb_calls,
    \* members being perturbed by a worker pool (section 5 of the design)
    workers,
    \* the records the module loggers have emitted
    log,
    \* what compute_spread_direction handed back to its caller
    direction,
    \* fetch_firms_hotspots (firms.py:17-91): its retry parameters, its loop
    \* variable, the requests issued and the time.sleep calls made so far,
    \* in order, and what its caller receives
    max_retries, retry_delay, attempt, requests_made, slept, fetched

vars == <<hotspots_df, wind_u, wind_v, temp, slope, rh,
          model_config, mc_config, n_ensemble, base_seed, n_timesteps,
          np_random, pc, i, ensemble_results, perturbed,
          bs_args, current_grid, max_grid, spread_potential, t, bs_return,
          result, returned, perturb_calls, workers, log, direction,
          max_retries, retry_delay, attempt, requests_made, slept, fetched>>

inputs == <<hotspots_df, wind_u, wind_v, temp, slope, rh,
            model_config, mc_config, n_ensemble, base_seed, n_timesteps>>

mc_frame == <<i, ensemble_results, perturbed, perturb_calls>>

bs_frame == <<bs_args, current_grid, max_grid, spread_potential, t, bs_return>>

fetch_frame == <<max_retries, retry_delay, attempt, requests_made, slept, fetched>>

-----------------------------------------------------------------------------
(* Bounds of the model *)

\* largest number of cells H * W of a grid
MaxCells == 6
\* largest number of hotspot detections handed to a run
MaxDetections == 1
\* largest n_ensemble
MaxEnsemble == 2
\* largest n_timesteps of an ensemble run
MaxTimesteps == 2
\* number of calls of run_monte_carlo_ensemble followed in one behaviour
MaxCalls == 2

-----------------------------------------------------------------------------
(* Numbers *)

\* fixed-point unit: 1.0 of the code
Scale == 1000

NaN == 0 - (Scale * Scale)

IsNaN(x) == x = NaN

Max(a, b) == IF a >= b THEN a ELSE b

\* np.clip(x, lo, hi)
clip(x, lo, hi) == IF x < lo THEN lo ELSE IF x > hi THEN hi ELSE x

\* the largest r in lo .. hi with r * r <= n, by bisection
RECURSIVE SqrtSearch(_, _, _)
SqrtSearch(n, lo, hi) ==
    IF lo >= hi THEN lo
    ELSE CHOOSE r \in
             {IF mid * mid <= n THEN SqrtSearch(n, mid, hi)
                               ELSE SqrtSearch(n, lo, mid - 1) :
                 mid \in {(lo + hi + 1) \div 2}} : TRUE

\* np.sqrt, on n = x * Scale * Scale, as the fixed-point root of x
sqrt(n) == SqrtSearch(n, 0, 46340)

Abs(x) == IF x < 0 THEN 0 - x ELSE x

\* np.float32 carries 24 significant binary digits
Float32Limit == 2 ^ 24

\* the spacing of the float32 values around magnitude a: the least power of
\* two, from `step` up, that leaves a 24-digit significand
RECURSIVE Ulp(_, _)
Ulp(a, step) == IF a \div step < Float32Limit THEN step ELSE Ulp(a, 2 * step)

\* v rounded to the nearest multiple of step, ties to the even multiple
RoundTo(v, step) ==
    LET q == Abs(v) \div step
        r == Abs(v) % step
        m == IF 2 * r > step \/ (2 * r = step /\ q % 2 = 1)
             THEN (q + 1) * step ELSE q * step
    IN  IF v < 0 THEN 0 - m ELSE m

\* x.astype(np.float32), and every float32 result: x rounded to 24 significant
\* digits, to nearest, ties to even
float32(x) == CHOOSE r \in {RoundTo(v, Ulp(Abs(v), 1)) : v \in {x}} : TRUE

\* config.get(key, default)
Get(config, key, default) ==
    IF key \in DOMAIN config THEN config[key] ELSE default

-----------------------------------------------------------------------------
(* Grids *)

Cells(shape) == (0 .. shape[1] - 1) \X (0 .. shape[2] - 1)

\* field.shape
ShapeOf(field) ==
    <<Cardinality({c[1] : c \in DOMAIN field}),
      Cardinality({c[2] : c \in DOMAIN field})>>

\* np.zeros(shape)
zeros(shape) == [c \in Cells(shape) |-> 0]

\* grid > 0
Burned(grid) == {c \in DOMAIN grid : grid[c] > 0}

-----------------------------------------------------------------------------
(* Logging *)

\* the record logger.info emits at a source line of the spread package
Info(line) == [level |-> "INFO", line |-> line]

-----------------------------------------------------------------------------
(* baseline.py: GridSeeder *)

\* the affine geo-transform of the analysis grid, north up: ten coordinate
\* units per pixel, x = a * col + c, y = e * row + f
transform == [a |-> 10, c |-> 0, e |-> -10, f |-> 0]

\* a detection at the centre of pixel (row, col)
DetectionAt(row, col) ==
    [longitude |-> transform.a * col + transform.c + 5,
     latitude  |-> transform.e * row + transform.f - 5]

\* rasterio.transform.rowcol(transform, x, y): the inverse transform, then
\* math.floor on the fractional row and column
rowcol(tr, x, y) ==
    <<((tr.f - y) \div (0 - tr.e)), ((x - tr.c) \div tr.a)>>

\* the seeding loop leaving at the first detection outside the grid
RECURSIVE PlaceHotspots_break(_, _, _, _, _)
PlaceHotspots_break(grid, hotspots, grid_shape, tr, seed_strength) ==
    IF hotspots = <<>> THEN grid
    ELSE LET hotspot == Head(hotspots)
             rc == rowcol(tr, hotspot.longitude, hotspot.latitude)
         IN  IF 0 <= rc[1] /\ rc[1] < grid_shape[1]
                /\ 0 <= rc[2] /\ rc[2] < grid_shape[2]
             THEN PlaceHotspots_break([grid EXCEPT ![rc] = float32(seed_strength)],
                                      Tail(hotspots), grid_shape, tr,
                                      seed_strength)
             ELSE grid

\* the seeding loop adding seed_strength to the cell instead of assigning it
RECURSIVE PlaceHotspots_accumulate(_, _, _, _, _)
PlaceHotspots_accumulate(grid, hotspots, grid_shape, tr, seed_strength) ==
    IF hotspots = <<>> THEN grid
    ELSE LET hotspot == Head(hotspots)
             rc == rowcol(tr, hotspot.longitude, hotspot.latitude)
             placed ==
                 IF 0 <= rc[1] /\ rc[1] < grid_shape[1]
                    /\ 0 <= rc[2] /\ rc[2] < grid_shape[2]
                 THEN [grid EXCEPT ![rc] = float32(grid[rc] + seed_strength)]
                 ELSE grid
         IN  PlaceHotspots_accumulate(placed, Tail(hotspots), grid_shape, tr,
                                      seed_strength)

\* lines 39-50: the loop over hotspots_df.iterrows(), in order
RECURSIVE PlaceHotspots(_, _, _, _, _)
PlaceHotspots(grid, hotspots, grid_shape, tr, seed_strength) ==
    IF hotspots = <<>> THEN grid
    ELSE LET hotspot == Head(hotspots)
             rc == rowcol(tr, hotspot.longitude, hotspot.latitude)
             placed ==
                 IF 0 <= rc[1] /\ rc[1] < grid_shape[1]
                    /\ 0 <= rc[2] /\ rc[2] < grid_shape[2]
                 THEN [grid EXCEPT ![rc] = float32(seed_strength)]
                 ELSE grid
         IN  PlaceHotspots(placed, Tail(hotspots), grid_shape, tr, seed_strength)

initialize_grid(hotspots, grid_shape, tr, seed_strength) ==
    PlaceHotspots(zeros(grid_shape), hotspots, grid_shape, tr, seed_strength)

-----------------------------------------------------------------------------
(* baseline.py: SpreadPotentialModel *)

compute_spread_potential(wu, wv, sl, hum, config) ==
    [c \in DOMAIN wu |->
        LET wind_speed == sqrt(wu[c] * wu[c] + wv[c] * wv[c])
            wind_factor == clip((wind_speed * Scale) \div (20 * Scale), 0, Scale)
            slope_factor ==
                clip((sl[c] * Scale) \div Get(config, "slope_max_deg", 45 * Scale),
                     0, Scale)
            dryness_factor ==
                clip(((100 * Scale - hum[c]) * Scale) \div (100 * Scale), 0, Scale)
            potential ==
                (Get(config, "wind_weight", 500) * wind_factor
                 + Get(config, "slope_weight", 300) * slope_factor
                 + Get(config, "dryness_weight", 200) * dryness_factor) \div Scale
        IN  clip(potential, 0, Scale)]

-----------------------------------------------------------------------------
(* baseline.py: one transition of the BaselineSpreadSimulator *)

\* the structuring element with the cross taken whatever `neighbors` says
Structure_cross(neighbors) ==
    {<<0, 0>>, <<-1, 0>>, <<1, 0>>, <<0, -1>>, <<0, 1>>}

\* the structuring element with its two branches exchanged
Structure_swapped(neighbors) ==
    IF neighbors = 4
    THEN (-1 .. 1) \X (-1 .. 1)
    ELSE {<<0, 0>>, <<-1, 0>>, <<1, 0>>, <<0, -1>>, <<0, 1>>}

\* the structuring element, as offsets from its centre
Structure(neighbors) ==
    IF neighbors = 4
    THEN {<<0, 0>>, <<-1, 0>>, <<1, 0>>, <<0, -1>>, <<0, 1>>}
    ELSE (-1 .. 1) \X (-1 .. 1)

\* a dilation that marks every cell of the grid
binary_dilation_all(grid, structure, c) == TRUE

\* scipy.ndimage.binary_dilation(active_mask, structure) at cell c, where
\* active_mask = grid > 0: some cell under the structuring element centred
\* on c is active; cells outside the grid count as inactive
binary_dilation(grid, structure, c) ==
    \E d \in structure :
        /\ <<c[1] + d[1], c[2] + d[2]>> \in DOMAIN grid
        /\ grid[<<c[1] + d[1], c[2] + d[2]>>] > 0

\* line 134 without the threshold test
can_spread_nothreshold(grid, potential, threshold, neighbors, c) ==
    /\ binary_dilation(grid, Structure(neighbors), c)
    /\ ~(grid[c] > 0)

\* line 134 without `& ~active_mask`: burning cells are written again
can_spread_reignite(grid, potential, threshold, neighbors, c) ==
    /\ potential[c] > threshold
    /\ binary_dilation(grid, Structure(neighbors), c)

\* line 134, at cell c:
\* (spread_potential > threshold) & neighbor_mask & ~active_mask
can_spread(grid, potential, threshold, neighbors, c) ==
    /\ potential[c] > threshold
    /\ binary_dilation(grid, Structure(neighbors), c)
    /\ ~(grid[c] > 0)

\* propagate_spread building its result from an empty grid instead of
\* current_grid.copy()
propagate_spread_nocopy(grid, potential, threshold, neighbors) ==
    [c \in DOMAIN grid |->
        IF can_spread(grid, potential, threshold, neighbors, c)
        THEN potential[c] ELSE 0]

\* propagate_spread marking the cells it ignites with 1.0 instead of their
\* potential
propagate_spread_binary(grid, potential, threshold, neighbors) ==
    [c \in DOMAIN grid |->
        IF can_spread(grid, potential, threshold, neighbors, c)
        THEN Scale ELSE grid[c]]

\* lines 137-138: new_grid = current_grid.copy();
\* new_grid[can_spread] = spread_potential[can_spread]. The float32 grid
\* stores the potential rounded to float32; a potential, clipped to
\* 0 .. Scale, is a float32 value at this resolution
propagate_spread(grid, potential, threshold, neighbors) ==
    [c \in DOMAIN grid |->
        IF can_spread(grid, potential, threshold, neighbors, c)
        THEN potential[c] ELSE grid[c]]

\* the running grid summed with each new grid instead of np.maximum
maximum_accumulate(a, b) == [c \in DOMAIN a |-> a[c] + b[c]]

\* the running grid never updated
maximum_first(a, b) == a

\* np.maximum(a, b)
maximum(a, b) == [c \in DOMAIN a |-> Max(a[c], b[c])]

-----------------------------------------------------------------------------
(* baseline.py: run_baseline_spread, one action per step of its body *)

\* lines 169-180: seed the grid, copy it, compute the static potential
BaselineEntry ==
    /\ pc = "run_baseline_spread"
    /\ current_grid' =
           initialize_grid(hotspots_df, ShapeOf(bs_args.wind_u), transform,
                           Get(model_config, "seed_strength", Scale))
    /\ max_grid' = current_grid'
    /\ spread_potential' =
           compute_spread_potential(bs_args.wind_u, bs_args.wind_v,
                                    bs_args.slope, bs_args.rh, model_config)
    /\ t' = 0
    /\ pc' = "time_evolution"
    /\ log' = log \cup {Info(169), Info(52)}
    /\ UNCHANGED <<inputs, np_random, mc_frame, bs_args, bs_return,
                   result, returned, workers, direction,
                   fetch_frame>>

\* lines 183-198: one iteration of `for t in range(n_timesteps)`
Timestep ==
    /\ pc = "time_evolution"
    /\ t < n_timesteps
    /\ current_grid' =
           propagate_spread(current_grid, spread_potential,
                            Get(model_config, "spread_threshold", 300),
                            Get(model_config, "neighbors", 8))
    /\ max_grid' = maximum(max_grid, current_grid')
    /\ t' = t + 1
    /\ log' = IF (t + 1) % 6 = 0 THEN log \cup {Info(198)} ELSE log
    /\ UNCHANGED <<inputs, np_random, pc, mc_frame, bs_args, spread_potential,
                   bs_return, result, returned, workers, direction,
                   fetch_frame>>

\* lines 200-203: the loop is exhausted (at once when n_timesteps <= 0)
BaselineReturn ==
    /\ pc = "time_evolution"
    /\ ~(t < n_timesteps)
    /\ bs_return' = <<current_grid, max_grid>>
    /\ pc' = "baseline_returned"
    /\ log' = log \cup {Info(201)}
    /\ UNCHANGED <<inputs, np_random, mc_frame, bs_args, current_grid, max_grid,
                   spread_potential, t, result, returned, workers, direction,
                   fetch_frame>>

-----------------------------------------------------------------------------
(* The inputs the model draws from *)

Shapes == {s \in (1 .. MaxCells) \X (1 .. MaxCells) : s[1] * s[2] <= MaxCells}

\* a field with the same value in every cell
Uniform(shape, v) == [c \in Cells(shape) |-> v]

RECURSIVE SeqsUpTo(_, _)
SeqsUpTo(S, n) ==
    IF n = 0 THEN {<<>>}
    ELSE LET shorter == SeqsUpTo(S, n - 1)
         IN  shorter \cup {Append(q, x) : q \in shorter, x \in S}

\* detections at the centre of every cell, and one west of the grid
Detections(shape) ==
    {DetectionAt(c[1], c[2]) : c \in Cells(shape)} \cup {DetectionAt(0, -1)}

Hotspots(shape) == SeqsUpTo(Detections(shape), MaxDetections)

\* slope in thousandths of a degree: flat, or at slope_max_deg
SlopeLevels == {0, 45 * Scale}

\* model configurations of a single run; an absent key takes the code's default
BaselineConfigs ==
    { [neighbors |-> 8],
      [neighbors |-> 4],
      [neighbors |-> 4, spread_threshold |-> -100, seed_strength |-> 2 * Scale,
       wind_weight |-> 0, slope_weight |-> Scale, dryness_weight |-> 0],
      [neighbors |-> 8, seed_strength |-> 0] }

-----------------------------------------------------------------------------
(* SpecBaseline: run_baseline_spread called directly with the caller's fields *)

NoResult == [status |-> "none"]

\* fetch_firms_hotspots has not been called; its keyword defaults (lines 23-24)
FetchIdle ==
    /\ max_retries = 3
    /\ retry_delay = 5
    /\ attempt = 0
    /\ requests_made = <<>>
    /\ slept = <<>>
    /\ fetched = NoResult

InitBaseline ==
    /\ \E shape \in Shapes :
         /\ wind_u = Uniform(shape, 5 * Scale)
         /\ wind_v = Uniform(shape, 0)
         /\ temp = Uniform(shape, 295 * Scale)
         /\ rh = Uniform(shape, 40 * Scale)
         /\ slope \in [Cells(shape) -> SlopeLevels]
         /\ hotspots_df \in Hotspots(shape)
         /\ n_timesteps \in {-1, 0, shape[1] * shape[2]}
    /\ model_config \in BaselineConfigs
    /\ mc_config = [wind_perturbation |-> 200]
    /\ n_ensemble = 1
    /\ base_seed = 0
    /\ np_random = 0
    /\ pc = "run_baseline_spread"
    /\ i = 0
    /\ ensemble_results = <<>>
    /\ perturbed = <<>>
    /\ perturb_calls = <<>>
    /\ bs_args = [wind_u |-> wind_u, wind_v |-> wind_v, slope |-> slope, rh |-> rh]
    /\ current_grid = <<>>
    /\ max_grid = <<>>
    /\ spread_potential = <<>>
    /\ t = 0
    /\ bs_return = <<>>
    /\ result = NoResult
    /\ returned = <<>>
    /\ workers = <<>>
    /\ log = {}
    /\ direction = <<>>
    /\ FetchIdle

NextBaseline == BaselineEntry \/ Timestep \/ BaselineReturn

SpecBaseline == InitBaseline /\ [][NextBaseline]_vars

-----------------------------------------------------------------------------
(* SpecSeeder: run_baseline_spread on detection lists that fall on, beside   *)
(* and outside the grid                                                      *)

\* largest number of detections handed to the seeder
MaxSeeded == 3

SeederShapes == {<<1, 2>>, <<2, 2>>}

\* a detection just inside the north-west corner of pixel (row, col)
DetectionInCorner(row, col) ==
    [longitude |-> transform.a * col + transform.c + 1,
     latitude  |-> transform.e * row + transform.f - 1]

\* detections at the centre of every cell, a second one in cell (0, 0), and
\* one beyond each of the four edges of the grid
SeederDetections(shape) ==
    {DetectionAt(c[1], c[2]) : c \in Cells(shape)}
        \cup {DetectionInCorner(0, 0),
              DetectionAt(-1, 0), DetectionAt(shape[1], 0),
              DetectionAt(0, -1), DetectionAt(0, shape[2])}

SeederConfigs == {[neighbors |-> 8], [neighbors |-> 4, seed_strength |-> 700]}

InitSeeder ==
    /\ \E shape \in SeederShapes :
         /\ wind_u = Uniform(shape, 5 * Scale)
         /\ wind_v = Uniform(shape, 0)
         /\ temp = Uniform(shape, 295 * Scale)
         /\ rh = Uniform(shape, 40 * Scale)
         /\ slope = Uniform(shape, 10 * Scale)
         /\ hotspots_df \in SeqsUpTo(SeederDetections(shape), MaxSeeded)
    /\ model_config \in SeederConfigs
    /\ n_timesteps \in {0, 1}
    /\ mc_config = [wind_perturbation |-> 200]
    /\ n_ensemble = 1
    /\ base_seed = 0
    /\ np_random = 0
    /\ pc = "run_baseline_spread"
    /\ i = 0
    /\ ensemble_results = <<>>
    /\ perturbed = <<>>
    /\ perturb_calls = <<>>
    /\ bs_args = [wind_u |-> wind_u, wind_v |-> wind_v, slope |-> slope, rh |-> rh]
    /\ current_grid = <<>>
    /\ max_grid = <<>>
    /\ spread_potential = <<>>
    /\ t = 0
    /\ bs_return = <<>>
    /\ result = NoResult
    /\ returned = <<>>
    /\ workers = <<>>
    /\ log = {}
    /\ direction = <<>>
    /\ FetchIdle

SpecSeeder == InitSeeder /\ [][NextBaseline]_vars

-----------------------------------------------------------------------------
(* numpy's global random generator *)

RngStates == 0 .. 15

\* np.random.seed(seed): the state is a function of the seed alone
RngSeed(seed) == seed % 16

\* the state after one draw
RngNext(r) == (5 * r + 3) % 16

\* the state after 2, 4, ... 256 draws, tabulated over the generator's states
Rng2 == [r \in RngStates |-> RngNext(RngNext(r))]
Rng4 == [r \in RngStates |-> Rng2[Rng2[r]]]
Rng8 == [r \in RngStates |-> Rng4[Rng4[r]]]
Rng16 == [r \in RngStates |-> Rng8[Rng8[r]]]
Rng32 == [r \in RngStates |-> Rng16[Rng16[r]]]
Rng64 == [r \in RngStates |-> Rng32[Rng32[r]]]
Rng128 == [r \in RngStates |-> Rng64[Rng64[r]]]
Rng256 == [r \in RngStates |-> Rng128[Rng128[r]]]

\* the state after k draws, k < 512, by the binary digits of k
RngAdvance(r, k) ==
    LET a0 == IF k % 2 = 1 THEN RngNext(r) ELSE r
        a1 == IF (k \div 2) % 2 = 1 THEN Rng2[a0] ELSE a0
        a2 == IF (k \div 4) % 2 = 1 THEN Rng4[a1] ELSE a1
        a3 == IF (k \div 8) % 2 = 1 THEN Rng8[a2] ELSE a2
        a4 == IF (k \div 16) % 2 = 1 THEN Rng16[a3] ELSE a3
        a5 == IF (k \div 32) % 2 = 1 THEN Rng32[a4] ELSE a4
        a6 == IF (k \div 64) % 2 = 1 THEN Rng64[a5] ELSE a5
        a7 == IF (k \div 128) % 2 = 1 THEN Rng128[a6] ELSE a6
    IN  IF (k \div 256) % 2 = 1 THEN Rng256[a7] ELSE a7

\* the draw a state yields, as one of four levels of [0, 1)
RngLevel(r) == r \div 4

\* np.random.uniform(low, high, shape) from generator state r, at cell c: the
\* cells are filled in row-major order, one draw each
uniform(r, low, high, shape, c) ==
    low + (RngLevel(RngAdvance(r, c[1] * shape[2] + c[2] + 1)) * (high - low))
          \div 4

\* field.size
Size(field) == Cardinality(DOMAIN field)

\* the state np.random.uniform(low, high, shape) leaves the generator in
after_uniform(r, shape) == RngAdvance(r, shape[1] * shape[2])

-----------------------------------------------------------------------------
(* monte_carlo.py: WeatherPerturbator *)

\* field * (1 + np.random.uniform(-pert, pert, field.shape)), the draws
\* starting from generator state r
Perturb(field, pert, r) ==
    [c \in DOMAIN field |->
        (field[c] * (Scale + uniform(r, 0 - pert, pert, ShapeOf(field), c)))
        \div Scale]

\* np.clip(field, lo, hi)
clip_field(field, lo, hi) == [c \in DOMAIN field |-> clip(field[c], lo, hi)]

\* perturb_weather without its np.random.seed(seed): the draws continue from
\* the state r the global generator happens to be in
perturb_weather_noseed(r, wu, wv, tp, hum, config, seed) ==
    [wind_u |-> Perturb(wu, Get(config, "wind_perturbation", 200), r),
     wind_v |-> Perturb(wv, Get(config, "wind_perturbation", 200),
                        RngAdvance(r, Size(wu))),
     temp |-> Perturb(tp, Get(config, "temp_perturbation", 50),
                      RngAdvance(r, Size(wu) + Size(wv))),
     rh |-> clip_field(Perturb(hum, Get(config, "rh_perturbation", 100),
                               RngAdvance(r, Size(wu) + Size(wv) + Size(tp))),
                       0, 100 * Scale),
     np_random |-> RngAdvance(r, Size(wu) + Size(wv) + Size(tp) + Size(hum))]

\* perturb_weather returning its last two fields in the other order: the
\* caller's rh_pert is the perturbed temperature
perturb_weather_swapped(r, wu, wv, tp, hum, config, seed) ==
    [wind_u |-> Perturb(wu, Get(config, "wind_perturbation", 200),
                        RngSeed(seed)),
     wind_v |-> Perturb(wv, Get(config, "wind_perturbation", 200),
                        RngAdvance(RngSeed(seed), Size(wu))),
     rh |-> Perturb(tp, Get(config, "temp_perturbation", 50),
                    RngAdvance(RngSeed(seed), Size(wu) + Size(wv))),
     temp |-> clip_field(Perturb(hum, Get(config, "rh_perturbation", 100),
                                 RngAdvance(RngSeed(seed),
                                            Size(wu) + Size(wv) + Size(tp))),
                         0, 100 * Scale),
     np_random |-> RngAdvance(RngSeed(seed),
                              Size(wu) + Size(wv) + Size(tp) + Size(hum))]

\* perturb_weather entered with the global generator in state r: the
\* generator is seeded, then the four fields draw from it in turn; the
\* result carries the perturbed fields and the state the generator is left in
perturb_weather(r, wu, wv, tp, hum, config, seed) ==
    [wind_u |-> Perturb(wu, Get(config, "wind_perturbation", 200),
                        RngSeed(seed)),
     wind_v |-> Perturb(wv, Get(config, "wind_perturbation", 200),
                        RngAdvance(RngSeed(seed), Size(wu))),
     temp |-> Perturb(tp, Get(config, "temp_perturbation", 50),
                      RngAdvance(RngSeed(seed), Size(wu) + Size(wv))),
     rh |-> clip_field(Perturb(hum, Get(config, "rh_perturbation", 100),
                               RngAdvance(RngSeed(seed),
                                          Size(wu) + Size(wv) + Size(tp))),
                       0, 100 * Scale),
     np_random |-> RngAdvance(RngSeed(seed),
                              Size(wu) + Size(wv) + Size(tp) + Size(hum))]

-----------------------------------------------------------------------------
(* monte_carlo.py: the reduction over the ensemble axis *)

\* the values the members hold at cell c, along the ensemble axis
Column(members, c) == [k \in 1 .. Len(members) |-> members[k][c]]

RECURSIVE Sum(_)
Sum(xs) == IF xs = <<>> THEN 0 ELSE Head(xs) + Sum(Tail(xs))

\* np.mean of a boolean stack over the ensemble axis: the sum and the
\* division are exact; the mean of an empty slice is NaN
mean(xs) == IF Len(xs) = 0 THEN NaN ELSE Sum(xs) \div Len(xs)

\* np.add.reduce of a float32 stack over the ensemble axis: member by member,
\* every partial sum a float32
RECURSIVE Sum32(_, _)
Sum32(xs, k) == IF k = 0 THEN 0 ELSE float32(Sum32(xs, k - 1) + xs[k])

\* np.true_divide of a float32 by the member count: the nearest float32
Div32(a, n) == float32((2 * a + n) \div (2 * n))

\* np.mean of a float32 stack over the ensemble axis
mean32(xs) ==
    IF Len(xs) = 0 THEN NaN ELSE Div32(Sum32(xs, Len(xs)), Len(xs))

\* np.std of a float32 stack over the ensemble axis: the root of the mean
\* squared deviation from the mean, every step in float32
std(xs) ==
    IF Len(xs) = 0 THEN NaN
    ELSE sqrt(mean32([k \in 1 .. Len(xs) |->
                        float32((xs[k] - mean32(xs)) * (xs[k] - mean32(xs)))]))

\* the probability of a cell taken from the mean intensity: 1.0 if any member
\* burned it
probability_of_any(members, shape) ==
    [c \in Cells(shape) |->
        IF Len(members) = 0 THEN NaN
        ELSE IF \E k \in 1 .. Len(members) : members[k][c] > 0
             THEN Scale ELSE 0]

\* np.mean(ensemble_results > 0, axis=0).astype(np.float32)
probability_of(members, shape) ==
    [c \in Cells(shape) |->
        float32(mean([k \in 1 .. Len(members) |->
                         IF members[k][c] > 0 THEN Scale ELSE 0]))]

\* np.mean(ensemble_results, axis=0).astype(np.float32)
mean_intensity_of(members, shape) ==
    [c \in Cells(shape) |-> mean32(Column(members, c))]

\* np.std(ensemble_results, axis=0).astype(np.float32)
uncertainty_of(members, shape) ==
    [c \in Cells(shape) |-> std(Column(members, c))]

-----------------------------------------------------------------------------
(* monte_carlo.py: run_monte_carlo_ensemble, one action per step of its body *)

\* every member perturbed with base_seed
member_seed_fixed(base, member) == base

\* line 99: seed = base_seed + i
member_seed(base, member) == base + member

\* lines 91-94: allocate the ensemble stack; np.zeros raises ValueError for a
\* negative first dimension
EnsembleCall ==
    /\ pc = "idle"
    /\ Len(returned) < MaxCalls
    /\ IF n_ensemble < 0
       THEN /\ result' = [status |-> "raised", error |-> "ValueError"]
            /\ returned' = Append(returned, result')
            /\ UNCHANGED <<pc, i, ensemble_results, perturb_calls>>
       ELSE /\ ensemble_results' =
                   [k \in 1 .. n_ensemble |-> zeros(ShapeOf(wind_u))]
            /\ i' = 0
            /\ perturb_calls' = <<>>
            /\ result' = NoResult
            /\ pc' = "mc_loop"
            /\ UNCHANGED returned
    /\ log' = log \cup {Info(91)}
    /\ UNCHANGED <<inputs, np_random, perturbed, bs_frame, workers, direction,
                   fetch_frame>>

\* the caller's array after an update made in place (field *= 1 + noise): it
\* holds the result
caller_array_inplace(base, out) == out

\* the caller's array after field * (1 + noise), np.clip(field, lo, hi) and
\* the like: each allocates its result, the operand keeps its contents
caller_array(base, out) == base

\* lines 97-114: member i perturbs the weather and calls run_baseline_spread
MemberPerturb ==
    /\ pc = "mc_loop"
    /\ i < n_ensemble
    /\ LET seed == member_seed(base_seed, i)
           p == perturb_weather(np_random, wind_u, wind_v, temp, rh,
                                mc_config, seed)
       IN  /\ perturb_calls' =
                  Append(perturb_calls,
                         [seed |-> seed, wind_u |-> wind_u, wind_v |-> wind_v,
                          temp |-> temp, rh |-> rh])
           /\ perturbed' = [wind_u |-> p.wind_u, wind_v |-> p.wind_v,
                            temp |-> p.temp, rh |-> p.rh]
           /\ np_random' = p.np_random
           /\ bs_args' = [wind_u |-> perturbed'.wind_u,
                          wind_v |-> perturbed'.wind_v,
                          slope |-> slope, rh |-> perturbed'.rh]
    /\ wind_u' = caller_array(wind_u, perturbed'.wind_u)
    /\ wind_v' = caller_array(wind_v, perturbed'.wind_v)
    /\ temp' = caller_array(temp, perturbed'.temp)
    /\ rh' = caller_array(rh, perturbed'.rh)
    /\ pc' = "run_baseline_spread"
    /\ UNCHANGED <<hotspots_df, slope, model_config, mc_config, n_ensemble,
                   base_seed, n_timesteps, i, ensemble_results, current_grid,
                   max_grid, spread_potential, t, bs_return, result, returned,
                   workers, log, direction,
                   fetch_frame>>

\* lines 116-119: the member's max_grid goes into its slot of the stack
StoreMember ==
    /\ pc = "baseline_returned"
    /\ ensemble_results' = [ensemble_results EXCEPT ![i + 1] = bs_return[2]]
    /\ i' = i + 1
    /\ pc' = "mc_loop"
    /\ log' = IF (i + 1) % 5 = 0 THEN log \cup {Info(119)} ELSE log
    /\ UNCHANGED <<inputs, np_random, perturbed, perturb_calls, bs_frame,
                   result, returned, workers, direction,
                   fetch_frame>>

\* lines 121-132: the loop is exhausted; reduce the stack and return
Reduce ==
    /\ pc = "mc_loop"
    /\ ~(i < n_ensemble)
    /\ LET grid_shape == ShapeOf(wind_u)
       IN  result' =
               [status |-> "returned",
                probability |-> probability_of(ensemble_results, grid_shape),
                mean_intensity |-> mean_intensity_of(ensemble_results, grid_shape),
                uncertainty |-> uncertainty_of(ensemble_results, grid_shape)]
    /\ returned' = Append(returned, result')
    /\ pc' = "idle"
    /\ log' = log \cup {Info(130)}
    /\ UNCHANGED <<inputs, np_random, mc_frame, bs_frame, workers, direction,
                   fetch_frame>>

\* between calls the program draws from the global generator elsewhere
\* (np.random.normal in run.py)
OtherRandomUse ==
    /\ pc = "idle"
    /\ 0 < Len(returned) /\ Len(returned) < MaxCalls
    /\ np_random' = RngNext(np_random)
    /\ UNCHANGED <<inputs, pc, mc_frame, bs_frame, result, returned,
                   workers, log, direction,
                   fetch_frame>>

-----------------------------------------------------------------------------
(* Spec: run_monte_carlo_ensemble called MaxCalls times on the same inputs *)

EnsembleShapes == {<<2, 2>>, <<1, 3>>}

EnsembleConfigs ==
    { [neighbors |-> 8],
      [neighbors |-> 4, seed_strength |-> 2 * Scale],
      [spread_threshold |-> 100, seed_strength |-> 0 - Scale] }

PerturbationConfigs ==
    { [wind_perturbation |-> 200],
      [wind_perturbation |-> 0, temp_perturbation |-> 0, rh_perturbation |-> 0] }

BaseSeeds == {42, 100}

\* detections in the first two cells of the top row, and one west of the grid
EnsembleDetections == {DetectionAt(0, 0), DetectionAt(0, 1), DetectionAt(0, -1)}

Init ==
    /\ \E shape \in EnsembleShapes :
         /\ wind_u = Uniform(shape, 5 * Scale)
         /\ wind_v = Uniform(shape, 0)
         /\ temp = Uniform(shape, 295 * Scale)
         /\ rh = Uniform(shape, 40 * Scale)
         /\ slope = Uniform(shape, 10 * Scale)
         /\ hotspots_df \in SeqsUpTo(EnsembleDetections, MaxDetections)
    /\ model_config \in EnsembleConfigs
    /\ mc_config \in PerturbationConfigs
    /\ n_ensemble \in -1 .. MaxEnsemble
    /\ base_seed \in BaseSeeds
    /\ n_timesteps \in -1 .. MaxTimesteps
    /\ np_random = 0
    /\ pc = "idle"
    /\ i = 0
    /\ ensemble_results = <<>>
    /\ perturbed = <<>>
    /\ perturb_calls = <<>>
    /\ bs_args = <<>>
    /\ current_grid = <<>>
    /\ max_grid = <<>>
    /\ spread_potential = <<>>
    /\ t = 0
    /\ bs_return = <<>>
    /\ result = NoResult
    /\ returned = <<>>
    /\ workers = <<>>
    /\ log = {}
    /\ direction = <<>>
    /\ FetchIdle

Next ==
    \/ EnsembleCall
    \/ MemberPerturb
    \/ BaselineEntry
    \/ Timestep
    \/ BaselineReturn
    \/ StoreMember
    \/ Reduce
    \/ OtherRandomUse

Spec == Init /\ [][Next]_vars

-----------------------------------------------------------------------------
(* SpecScenario: the 10 x 10 scenario of constant fields, one detection at   *)
(* a centre cell, three timesteps, eight neighbours, threshold 0.1, one      *)
(* member, base_seed 0                                                       *)

ScenarioShape == <<10, 10>>

\* the four cells around the centre of the 10 x 10 grid
CentreCells == {4, 5} \X {4, 5}

InitScenario ==
    /\ wind_u = Uniform(ScenarioShape, 5 * Scale)
    /\ wind_v = Uniform(ScenarioShape, 0)
    /\ temp = Uniform(ScenarioShape, 295 * Scale)
    /\ rh = Uniform(ScenarioShape, 40 * Scale)
    /\ slope = Uniform(ScenarioShape, 10 * Scale)
    /\ \E c \in CentreCells : hotspots_df = <<DetectionAt(c[1], c[2])>>
    /\ model_config = [neighbors |-> 8, spread_threshold |-> 100]
    /\ mc_config \in PerturbationConfigs
    /\ n_ensemble = 1
    /\ base_seed = 0
    /\ n_timesteps = 3
    /\ np_random \in RngStates
    /\ pc = "idle"
    /\ i = 0
    /\ ensemble_results = <<>>
    /\ perturbed = <<>>
    /\ perturb_calls = <<>>
    /\ bs_args = <<>>
    /\ current_grid = <<>>
    /\ max_grid = <<>>
    /\ spread_potential = <<>>
    /\ t = 0
    /\ bs_return = <<>>
    /\ result = NoResult
    /\ returned = <<>>
    /\ workers = <<>>
    /\ log = {}
    /\ direction = <<>>
    /\ FetchIdle

SpecScenario == InitScenario /\ [][Next]_vars

-----------------------------------------------------------------------------
(* SpecIdentical: ensembles whose members all simulate zero timesteps, so    *)
(* that every member returns the seeded grid                                 *)

\* largest n_ensemble of an ensemble of identical members
MaxIdentical == 5

\* seed strengths: the default 1.0, 0.7, and one that fills the 24 digits of
\* a float32 significand
IdenticalConfigs ==
    { [neighbors |-> 8],
      [neighbors |-> 8, seed_strength |-> 700],
      [neighbors |-> 8, seed_strength |-> Float32Limit - 1] }

InitIdentical ==
    /\ wind_u = Uniform(<<1, 2>>, 5 * Scale)
    /\ wind_v = Uniform(<<1, 2>>, 0)
    /\ temp = Uniform(<<1, 2>>, 295 * Scale)
    /\ rh = Uniform(<<1, 2>>, 40 * Scale)
    /\ slope = Uniform(<<1, 2>>, 10 * Scale)
    /\ hotspots_df \in {<<>>, <<DetectionAt(0, 0)>>}
    /\ model_config \in IdenticalConfigs
    /\ mc_config \in PerturbationConfigs
    /\ n_ensemble \in 1 .. MaxIdentical
    /\ base_seed = 42
    /\ n_timesteps \in {0, 1}
    /\ np_random = 0
    /\ pc = "idle"
    /\ i = 0
    /\ ensemble_results = <<>>
    /\ perturbed = <<>>
    /\ perturb_calls = <<>>
    /\ bs_args = <<>>
    /\ current_grid = <<>>
    /\ max_grid = <<>>
    /\ spread_potential = <<>>
    /\ t = 0
    /\ bs_return = <<>>
    /\ result = NoResult
    /\ returned = <<>>
    /\ workers = <<>>
    /\ log = {}
    /\ direction = <<>>
    /\ FetchIdle

SpecIdentical == InitIdentical /\ [][Next]_vars

-----------------------------------------------------------------------------
(* SpecIgnition: run_baseline_spread on grids with cells above and below the *)
(* threshold, seeded by up to MaxIgnitions detections                        *)

\* largest number of detections that seed a run
MaxIgnitions == 2

IgnitionShapes == {<<2, 2>>, <<1, 3>>}

\* the cross, the block, a seed strength below zero, and a threshold below
\* every potential with the potential taken from the slope alone
IgnitionConfigs ==
    { [neighbors |-> 4],
      [neighbors |-> 8],
      [neighbors |-> 4, seed_strength |-> -500],
      [neighbors |-> 8, spread_threshold |-> -100,
       wind_weight |-> 0, slope_weight |-> Scale, dryness_weight |-> 0] }

InitIgnition ==
    /\ \E shape \in IgnitionShapes :
         /\ wind_u = Uniform(shape, 5 * Scale)
         /\ wind_v = Uniform(shape, 0)
         /\ temp = Uniform(shape, 295 * Scale)
         /\ rh = Uniform(shape, 40 * Scale)
         /\ slope \in [Cells(shape) -> SlopeLevels]
         /\ hotspots_df \in
                SeqsUpTo({DetectionAt(c[1], c[2]) : c \in Cells(shape)},
                         MaxIgnitions)
    /\ model_config \in IgnitionConfigs
    /\ n_timesteps \in 0 .. MaxTimesteps
    /\ mc_config = [wind_perturbation |-> 200]
    /\ n_ensemble = 1
    /\ base_seed = 0
    /\ np_random = 0
    /\ pc = "run_baseline_spread"
    /\ i = 0
    /\ ensemble_results = <<>>
    /\ perturbed = <<>>
    /\ perturb_calls = <<>>
    /\ bs_args = [wind_u |-> wind_u, wind_v |-> wind_v, slope |-> slope, rh |-> rh]
    /\ current_grid = <<>>
    /\ max_grid = <<>>
    /\ spread_potential = <<>>
    /\ t = 0
    /\ bs_return = <<>>
    /\ result = NoResult
    /\ returned = <<>>
    /\ workers = <<>>
    /\ log = {}
    /\ direction = <<>>
    /\ FetchIdle

SpecIgnition == InitIgnition /\ [][NextBaseline]_vars

-----------------------------------------------------------------------------
(* SpecPotential: run_baseline_spread with the potential taken from the wind *)
(* alone, under configurations that differ in wind_norm_max only             *)

\* wind components in thousandths of a metre per second
WindSpeeds == {0, 5 * Scale, 10 * Scale, 30 * Scale}

PotentialConfigs ==
    { [wind_weight |-> Scale, slope_weight |-> 0, dryness_weight |-> 0],
      [wind_weight |-> Scale, slope_weight |-> 0, dryness_weight |-> 0,
       wind_norm_max |-> 10 * Scale],
      [wind_weight |-> Scale, slope_weight |-> 0, dryness_weight |-> 0,
       wind_norm_max |-> 40 * Scale] }

InitPotential ==
    /\ wind_u \in {Uniform(<<1, 2>>, w) : w \in WindSpeeds}
    /\ wind_v \in {Uniform(<<1, 2>>, w) : w \in WindSpeeds}
    /\ temp = Uniform(<<1, 2>>, 295 * Scale)
    /\ rh = Uniform(<<1, 2>>, 40 * Scale)
    /\ slope = Uniform(<<1, 2>>, 10 * Scale)
    /\ hotspots_df \in {<<>>, <<DetectionAt(0, 0)>>}
    /\ model_config \in PotentialConfigs
    /\ n_timesteps \in {0, 1}
    /\ mc_config = [wind_perturbation |-> 200]
    /\ n_ensemble = 1
    /\ base_seed = 0
    /\ np_random = 0
    /\ pc = "run_baseline_spread"
    /\ i = 0
    /\ ensemble_results = <<>>
    /\ perturbed = <<>>
    /\ perturb_calls = <<>>
    /\ bs_args = [wind_u |-> wind_u, wind_v |-> wind_v, slope |-> slope, rh |-> rh]
    /\ current_grid = <<>>
    /\ max_grid = <<>>
    /\ spread_potential = <<>>
    /\ t = 0
    /\ bs_return = <<>>
    /\ result = NoResult
    /\ returned = <<>>
    /\ workers = <<>>
    /\ log = {}
    /\ direction = <<>>
    /\ FetchIdle

SpecPotential == InitPotential /\ [][NextBaseline]_vars

-----------------------------------------------------------------------------
(* SpecRounding: run_baseline_spread on detections away from the pixel       *)
(* centres                                                                   *)

\* largest number of off-centre detections handed to the seeder
MaxOffCentre == 2

RoundingShapes == {<<1, 2>>, <<2, 2>>}

\* a detection at fractional (row, col) = (row10 / 10, col10 / 10)
DetectionAtTenths(row10, col10) ==
    [longitude |-> (transform.a * col10) \div 10 + transform.c,
     latitude  |-> (transform.e * row10) \div 10 + transform.f]

\* detections four and six tenths into the first row and the first two
\* columns
OffCentreDetections ==
    {DetectionAtTenths(r, c) : r \in {4, 6}, c \in {4, 6, 14, 16}}

InitRounding ==
    /\ \E shape \in RoundingShapes :
         /\ wind_u = Uniform(shape, 5 * Scale)
         /\ wind_v = Uniform(shape, 0)
         /\ temp = Uniform(shape, 295 * Scale)
         /\ rh = Uniform(shape, 40 * Scale)
         /\ slope = Uniform(shape, 10 * Scale)
    /\ hotspots_df \in SeqsUpTo(OffCentreDetections, MaxOffCentre)
    /\ model_config = [neighbors |-> 8]
    /\ n_timesteps \in {0, 1}
    /\ mc_config = [wind_perturbation |-> 200]
    /\ n_ensemble = 1
    /\ base_seed = 0
    /\ np_random = 0
    /\ pc = "run_baseline_spread"
    /\ i = 0
    /\ ensemble_results = <<>>
    /\ perturbed = <<>>
    /\ perturb_calls = <<>>
    /\ bs_args = [wind_u |-> wind_u, wind_v |-> wind_v, slope |-> slope, rh |-> rh]
    /\ current_grid = <<>>
    /\ max_grid = <<>>
    /\ spread_potential = <<>>
    /\ t = 0
    /\ bs_return = <<>>
    /\ result = NoResult
    /\ returned = <<>>
    /\ workers = <<>>
    /\ log = {}
    /\ direction = <<>>
    /\ FetchIdle

SpecRounding == InitRounding /\ [][NextBaseline]_vars

-----------------------------------------------------------------------------
(* SpecTemperature: run_monte_carlo_ensemble on temperature grids of         *)
(* different values                                                          *)

\* temperature in thousandths: kelvin, degrees Celsius, freezing point
TempLevels == {295 * Scale, 20 * Scale, 0}

\* the temperature grids of a shape: uniform ones, and one that differs from
\* cell to cell
TempFields(shape) ==
    {Uniform(shape, v) : v \in TempLevels}
        \cup {[c \in Cells(shape) |-> (c[2] + 1) * 100 * Scale]}

InitTemperature ==
    /\ wind_u = Uniform(<<1, 3>>, 5 * Scale)
    /\ wind_v = Uniform(<<1, 3>>, 0)
    /\ temp \in TempFields(<<1, 3>>)
    /\ rh = Uniform(<<1, 3>>, 40 * Scale)
    /\ slope = Uniform(<<1, 3>>, 10 * Scale)
    /\ hotspots_df \in {<<>>, <<DetectionAt(0, 0)>>}
    /\ model_config = [neighbors |-> 8]
    /\ mc_config \in PerturbationConfigs
    /\ n_ensemble \in 1 .. MaxEnsemble
    /\ base_seed = 42
    /\ n_timesteps \in 0 .. MaxTimesteps
    /\ np_random = 0
    /\ pc = "idle"
    /\ i = 0
    /\ ensemble_results = <<>>
    /\ perturbed = <<>>
    /\ perturb_calls = <<>>
    /\ bs_args = <<>>
    /\ current_grid = <<>>
    /\ max_grid = <<>>
    /\ spread_potential = <<>>
    /\ t = 0
    /\ bs_return = <<>>
    /\ result = NoResult
    /\ returned = <<>>
    /\ workers = <<>>
    /\ log = {}
    /\ direction = <<>>
    /\ FetchIdle

SpecTemperature == InitTemperature /\ [][Next]_vars

-----------------------------------------------------------------------------
(* firms.py: fetch_firms_hotspots, one action per outcome of an iteration of *)
(* its retry loop                                                            *)

\* largest max_retries handed to fetch_firms_hotspots
MaxRetries == 3

\* the requests.exceptions.RequestException subclasses that requests.get and
\* response.raise_for_status raise (lines 59-60)
RequestErrors == {"ConnectionError", "Timeout", "HTTPError"}

\* the except clause sleeping and going round again after every failed
\* request, the last one included
retry_pending_always(att, retries) == att < retries

\* line 84: if attempt < max_retries - 1
retry_pending(att, retries) == att < retries - 1

\* lines 58-80: the request succeeds, the CSV is parsed and saved, and the
\* path is returned
RequestSucceeds ==
    /\ pc = "fetch_firms_hotspots"
    /\ attempt < max_retries
    /\ requests_made' = Append(requests_made, "ok")
    /\ fetched' = [status |-> "returned", request |-> Len(requests_made')]
    /\ pc' = "fetch_done"
    /\ UNCHANGED <<inputs, np_random, mc_frame, bs_frame, result, returned,
                   workers, log, direction, max_retries, retry_delay,
                   attempt, slept>>

\* lines 58-64: the request succeeds and pd.read_csv raises; the error is
\* no RequestException, the except clause of line 82 does not catch it
ParseFails ==
    /\ pc = "fetch_firms_hotspots"
    /\ attempt < max_retries
    /\ requests_made' = Append(requests_made, "ok")
    /\ fetched' = [status |-> "raised", error |-> "ParserError"]
    /\ pc' = "fetch_done"
    /\ UNCHANGED <<inputs, np_random, mc_frame, bs_frame, result, returned,
                   workers, log, direction, max_retries, retry_delay,
                   attempt, slept>>

\* lines 58-60, 82-89: the request fails with RequestException e; sleep and
\* take the next iteration, or re-raise e
RequestFails ==
    /\ pc = "fetch_firms_hotspots"
    /\ attempt < max_retries
    /\ \E e \in RequestErrors :
         /\ requests_made' = Append(requests_made, e)
         /\ IF retry_pending(attempt, max_retries)
            THEN /\ slept' = Append(slept, retry_delay)
                 /\ attempt' = attempt + 1
                 /\ UNCHANGED <<pc, fetched>>
            ELSE /\ fetched' = [status |-> "raised", error |-> e,
                                request |-> Len(requests_made')]
                 /\ pc' = "fetch_done"
                 /\ UNCHANGED <<attempt, slept>>
    /\ UNCHANGED <<inputs, np_random, mc_frame, bs_frame, result, returned,
                   workers, log, direction, max_retries, retry_delay>>

\* line 91: range(max_retries) is exhausted
FetchExhausted ==
    /\ pc = "fetch_firms_hotspots"
    /\ ~(attempt < max_retries)
    /\ fetched' = [status |-> "raised", error |-> "RuntimeError"]
    /\ pc' = "fetch_done"
    /\ UNCHANGED <<inputs, np_random, mc_frame, bs_frame, result, returned,
                   workers, log, direction, max_retries, retry_delay,
                   attempt, requests_made, slept>>

\* retry_delay in seconds
RetryDelays == {0, 5}

InitFetch ==
    /\ wind_u = Uniform(<<1, 2>>, 5 * Scale)
    /\ wind_v = Uniform(<<1, 2>>, 0)
    /\ temp = Uniform(<<1, 2>>, 295 * Scale)
    /\ rh = Uniform(<<1, 2>>, 40 * Scale)
    /\ slope = Uniform(<<1, 2>>, 10 * Scale)
    /\ hotspots_df = <<>>
    /\ model_config = [neighbors |-> 8]
    /\ mc_config = [wind_perturbation |-> 200]
    /\ n_ensemble = 1
    /\ base_seed = 0
    /\ n_timesteps = 0
    /\ np_random = 0
    /\ pc = "fetch_firms_hotspots"
    /\ i = 0
    /\ ensemble_results = <<>>
    /\ perturbed = <<>>
    /\ perturb_calls = <<>>
    /\ bs_args = <<>>
    /\ current_grid = <<>>
    /\ max_grid = <<>>
    /\ spread_potential = <<>>
    /\ t = 0
    /\ bs_return = <<>>
    /\ result = NoResult
    /\ returned = <<>>
    /\ workers = <<>>
    /\ log = {}
    /\ direction = <<>>
    /\ max_retries \in -1 .. MaxRetries
    /\ retry_delay \in RetryDelays
    /\ attempt = 0
    /\ requests_made = <<>>
    /\ slept = <<>>
    /\ fetched = NoResult

NextFetch == RequestSucceeds \/ ParseFails \/ RequestFails \/ FetchExhausted

SpecFetch == InitFetch /\ [][NextFetch]_vars

-----------------------------------------------------------------------------
(* SpecFailure: calls in which a member's simulation may fail                *)

\* an exception in the loop body handled by leaving the loop and reducing
\* what the stack holds
on_member_error_reduce(members, shape) ==
    [status |-> "returned",
     probability |-> probability_of(members, shape),
     mean_intensity |-> mean_intensity_of(members, shape),
     uncertainty |-> uncertainty_of(members, shape)]

\* lines 97-119 have no try/except: an exception raised in the loop body
\* leaves run_monte_carlo_ensemble, and the caller receives the exception
on_member_error(members, shape) == [status |-> "raised", error |-> "Exception"]

\* an exception is raised while member i is simulated or stored (out of
\* memory, an interrupt, a failing import in initialize_grid)
MemberRaises ==
    /\ pc \in {"run_baseline_spread", "time_evolution", "baseline_returned"}
    /\ result' = on_member_error(ensemble_results, ShapeOf(wind_u))
    /\ returned' = Append(returned, result')
    /\ pc' = "idle"
    /\ UNCHANGED <<inputs, np_random, mc_frame, bs_frame, workers, log,
                   direction,
                   fetch_frame>>

InitFailure ==
    /\ wind_u = Uniform(<<1, 3>>, 5 * Scale)
    /\ wind_v = Uniform(<<1, 3>>, 0)
    /\ temp = Uniform(<<1, 3>>, 295 * Scale)
    /\ rh = Uniform(<<1, 3>>, 40 * Scale)
    /\ slope = Uniform(<<1, 3>>, 10 * Scale)
    /\ hotspots_df \in {<<>>, <<DetectionAt(0, 0)>>}
    /\ model_config = [neighbors |-> 8]
    /\ mc_config = [wind_perturbation |-> 200]
    /\ n_ensemble \in 0 .. MaxEnsemble
    /\ base_seed = 42
    /\ n_timesteps \in 0 .. MaxTimesteps
    /\ np_random = 0
    /\ pc = "idle"
    /\ i = 0
    /\ ensemble_results = <<>>
    /\ perturbed = <<>>
    /\ perturb_calls = <<>>
    /\ bs_args = <<>>
    /\ current_grid = <<>>
    /\ max_grid = <<>>
    /\ spread_potential = <<>>
    /\ t = 0
    /\ bs_return = <<>>
    /\ result = NoResult
    /\ returned = <<>>
    /\ workers = <<>>
    /\ log = {}
    /\ direction = <<>>
    /\ FetchIdle

NextFailure == Next \/ MemberRaises

SpecFailure == InitFailure /\ [][NextFailure]_vars

-----------------------------------------------------------------------------
(* monte_carlo.py: compute_spread_direction.  Angles are in millionths of a  *)
(* degree.                                                                   *)

\* one degree
Degree == 1000000

\* twice np.gradient(f) along `axis` (1 = rows, 2 = columns) at cell c, for
\* an axis of n >= 2 cells: the central difference inside, the one-sided
\* difference at the two ends
gradient2(f, axis, n, c) ==
    LET at(k) == f[IF axis = 1 THEN <<k, c[2]>> ELSE <<c[1], k>>]
    IN  IF c[axis] = 0 THEN 2 * (at(1) - at(0))
        ELSE IF c[axis] = n - 1 THEN 2 * (at(n - 1) - at(n - 2))
        ELSE at(c[axis] + 1) - at(c[axis] - 1)

\* the ratio num / den in thousandths, for 0 <= num <= den
PerMille(num, den) ==
    IF den >= 1000000 THEN num \div (den \div 1000) ELSE (num * 1000) \div den

\* arctan(num / den) for 0 <= num <= den, den > 0: exact at 0 and at 1, the
\* small-angle value num / den radians for ratios up to a thousandth, and
\* z * (45 + 15.64 * (1 - z)) degrees in between
Arctan(num, den) ==
    IF num = 0 THEN 0
    ELSE IF num = den THEN 45 * Degree
    ELSE IF den \div num >= 1000 THEN 57295780 \div (den \div num)
    ELSE PerMille(num, den)
             * (45000 + (15640 * (1000 - PerMille(num, den))) \div 1000)

\* np.arctan2(x1, x2) * 180 / np.pi: the angle of the point (x2, x1), in
\* (-180, 180] degrees
arctan2(x1, x2) ==
    LET a == IF x1 = 0 /\ x2 = 0 THEN 0
             ELSE IF Abs(x1) <= Abs(x2) THEN Arctan(Abs(x1), Abs(x2))
             ELSE 90 * Degree - Arctan(Abs(x2), Abs(x1))
        b == IF x2 >= 0 THEN a ELSE 180 * Degree - a
    IN  IF x1 < 0 THEN 0 - b ELSE b

\* lines 151-170 on a grid of at least two rows and two columns.  combined_x
\* and combined_y are taken twentyfold (14 * wind + 3 * twice the gradient),
\* which leaves the angle as it is; cells with probability < 0.01 get -1; the
\* result is cast to float32
compute_spread_direction(probability, wu, wv) ==
    [c \in DOMAIN probability |->
        float32(IF probability[c] < 10 THEN 0 - Degree
                ELSE (arctan2(14 * wu[c]
                                  + 3 * gradient2(probability, 2,
                                                  ShapeOf(probability)[2], c),
                              14 * wv[c]
                                  + 3 * gradient2(probability, 1,
                                                  ShapeOf(probability)[1], c))
                      + 360 * Degree) % (360 * Degree))]

\* run.py:270: direction = compute_spread_direction(probability, wind_u,
\* wind_v) on the probability the ensemble returned; np.gradient raises
\* ValueError on an axis of fewer than two cells
ComputeDirection ==
    /\ pc = "compute_spread_direction"
    /\ direction' =
           IF ShapeOf(result.probability)[1] < 2
              \/ ShapeOf(result.probability)[2] < 2
           THEN [status |-> "raised", error |-> "ValueError"]
           ELSE [status |-> "returned",
                 grid |-> compute_spread_direction(result.probability,
                                                   wind_u, wind_v)]
    /\ pc' = "direction_returned"
    /\ UNCHANGED <<inputs, np_random, mc_frame, bs_frame, result, returned,
                   workers, log, fetch_frame>>

-----------------------------------------------------------------------------
(* SpecDirection: compute_spread_direction on probability grids and winds    *)

DirectionShapes == {<<2, 2>>, <<1, 2>>}

\* probabilities 0, 0.005, 0.5 and 1
ProbabilityLevels == {0, 5, 500, Scale}

\* wind components in thousandths of a metre per second; a wind of
\* (-1, 5000 * Scale) has the bearing of (-0.000001, 5) metres per second
WindULevels == {0 - 5 * Scale, -1, 0, 3 * Scale}

WindVLevels == {0 - 5 * Scale, 0, 5 * Scale, 5000 * Scale}

InitDirection ==
    /\ \E shape \in DirectionShapes :
         /\ \E u \in WindULevels : wind_u = Uniform(shape, u)
         /\ \E v \in WindVLevels : wind_v = Uniform(shape, v)
         /\ temp = Uniform(shape, 295 * Scale)
         /\ rh = Uniform(shape, 40 * Scale)
         /\ slope = Uniform(shape, 10 * Scale)
         /\ \E p \in [Cells(shape) -> ProbabilityLevels] :
                result = [status |-> "returned", probability |-> p,
                          mean_intensity |-> p, uncertainty |-> zeros(shape)]
    /\ hotspots_df = <<>>
    /\ model_config = [neighbors |-> 8]
    /\ mc_config = [wind_perturbation |-> 200]
    /\ n_ensemble = 1
    /\ base_seed = 42
    /\ n_timesteps = 0
    /\ np_random = 0
    /\ pc = "compute_spread_direction"
    /\ i = 0
    /\ ensemble_results = <<>>
    /\ perturbed = <<>>
    /\ perturb_calls = <<>>
    /\ bs_args = <<>>
    /\ current_grid = <<>>
    /\ max_grid = <<>>
    /\ spread_potential = <<>>
    /\ t = 0
    /\ bs_return = <<>>
    /\ returned = <<result>>
    /\ workers = <<>>
    /\ log = {}
    /\ direction = <<>>
    /\ FetchIdle

SpecDirection == InitDirection /\ [][ComputeDirection]_vars

-----------------------------------------------------------------------------
(* SpecPool: the perturb_weather calls of two members dispatched to a worker *)
(* pool without locking.  Each call is the sequence of its statements; every *)
(* statement that touches numpy's global generator is one atomic step.       *)

\* the statement after each statement of perturb_weather
AfterStatement ==
    [seed |-> "draw_wind_u", draw_wind_u |-> "draw_wind_v",
     draw_wind_v |-> "draw_temp", draw_temp |-> "draw_rh",
     draw_rh |-> "return"]

\* the caller's field a draw statement perturbs, and its magnitude
DrawnField(statement) ==
    CASE statement = "draw_wind_u" ->
             [name |-> "wind_u", base |-> wind_u,
              pert |-> Get(mc_config, "wind_perturbation", 200)]
      [] statement = "draw_wind_v" ->
             [name |-> "wind_v", base |-> wind_v,
              pert |-> Get(mc_config, "wind_perturbation", 200)]
      [] statement = "draw_temp" ->
             [name |-> "temp", base |-> temp,
              pert |-> Get(mc_config, "temp_perturbation", 50)]
      [] statement = "draw_rh" ->
             [name |-> "rh", base |-> rh,
              pert |-> Get(mc_config, "rh_perturbation", 100)]

\* line 38: np.random.seed(seed)
WorkerSeed(w) ==
    /\ pc = "pool"
    /\ workers[w].pc = "seed"
    /\ np_random' = RngSeed(workers[w].seed)
    /\ workers' = [workers EXCEPT ![w].pc = AfterStatement["seed"]]
    /\ UNCHANGED <<inputs, pc, mc_frame, bs_frame, result, returned, log,
                   direction,
                   fetch_frame>>

\* lines 46-49: one field * (1 + np.random.uniform(-pert, pert, shape))
WorkerDraw(w) ==
    /\ pc = "pool"
    /\ workers[w].pc \in {"draw_wind_u", "draw_wind_v", "draw_temp", "draw_rh"}
    /\ LET f == DrawnField(workers[w].pc)
       IN  /\ np_random' = after_uniform(np_random, ShapeOf(f.base))
           /\ workers' =
                  [workers EXCEPT
                      ![w].pc = AfterStatement[workers[w].pc],
                      ![w].out = [name \in DOMAIN workers[w].out \cup {f.name} |->
                                     IF name = f.name
                                     THEN Perturb(f.base, f.pert, np_random)
                                     ELSE workers[w].out[name]]]
    /\ UNCHANGED <<inputs, pc, mc_frame, bs_frame, result, returned, log,
                   direction,
                   fetch_frame>>

\* lines 51-54: clip the humidity and return the four fields
WorkerReturn(w) ==
    /\ pc = "pool"
    /\ workers[w].pc = "return"
    /\ workers' =
           [workers EXCEPT
               ![w].pc = "done",
               ![w].out.rh = [c \in DOMAIN rh |->
                                 clip(workers[w].out.rh[c], 0, 100 * Scale)]]
    /\ UNCHANGED <<inputs, np_random, pc, mc_frame, bs_frame, result,
                   returned, log, direction,
                   fetch_frame>>

InitPool ==
    /\ \E shape \in EnsembleShapes :
         /\ wind_u = Uniform(shape, 5 * Scale)
         /\ wind_v = Uniform(shape, 2 * Scale)
         /\ temp = Uniform(shape, 295 * Scale)
         /\ rh = Uniform(shape, 40 * Scale)
         /\ slope = Uniform(shape, 10 * Scale)
         /\ hotspots_df \in SeqsUpTo(EnsembleDetections, MaxDetections)
    /\ model_config = [neighbors |-> 8]
    /\ mc_config \in PerturbationConfigs
    /\ n_ensemble = 2
    /\ base_seed \in BaseSeeds
    /\ n_timesteps = 0
    /\ np_random = 0
    /\ pc = "pool"
    /\ i = 0
    /\ ensemble_results = <<>>
    /\ perturbed = <<>>
    /\ perturb_calls = <<>>
    /\ bs_args = <<>>
    /\ current_grid = <<>>
    /\ max_grid = <<>>
    /\ spread_potential = <<>>
    /\ t = 0
    /\ bs_return = <<>>
    /\ result = NoResult
    /\ returned = <<>>
    /\ workers = [w \in 0 .. n_ensemble - 1 |->
                     [pc |-> "seed", seed |-> member_seed(base_seed, w),
                      out |-> [wind_u |-> <<>>]]]
    /\ log = {}
    /\ direction = <<>>
    /\ FetchIdle

NextPool ==
    \/ \E w \in DOMAIN workers : WorkerSeed(w)
    \/ \E w \in DOMAIN workers : WorkerDraw(w)
    \/ \E w \in DOMAIN workers : WorkerReturn(w)

SpecPool == InitPool /\ [][NextPool]_vars

-----------------------------------------------------------------------------
(* Properties *)

GridShape == ShapeOf(wind_u)

NumCells == GridShape[1] * GridShape[2]

\* the grid run_baseline_spread starts from
SeededGrid ==
    initialize_grid(hotspots_df, GridShape, transform,
                    Get(model_config, "seed_strength", Scale))

\* the transition the run in progress would take next
NextGrid ==
    propagate_spread(current_grid, spread_potential,
                     Get(model_config, "spread_threshold", 300),
                     Get(model_config, "neighbors", 8))

\* C1: monotonic propagation. Every timestep of a run leaves every burned
\* cell (FireState > 0) burned: the burned set after the step contains the
\* burned set before it.
C1_MonotonicPropagation ==
    [][(pc = "time_evolution" /\ pc' = "time_evolution")
        => Burned(current_grid) \subseteq Burned(current_grid')]_vars

\* a run whose burned set has grown beyond its seeds
C1_Witness ==
    /\ pc = "time_evolution"
    /\ t >= 2
    /\ Burned(SeededGrid) # {}
    /\ Burned(SeededGrid) \subseteq Burned(current_grid)
    /\ Cardinality(Burned(current_grid)) >= Cardinality(Burned(SeededGrid)) + 2

\* C2 as stated: after max(H, W) timesteps the grid is a fixed point of
\* propagate_spread.
C2_ConvergedAfterMaxHW ==
    (pc = "time_evolution" /\ t >= Max(GridShape[1], GridShape[2]))
        => NextGrid = current_grid

\* C2, amended: after H * W - 1 timesteps the grid is a fixed point of
\* propagate_spread.
C2_ConvergedAfterCells ==
    (pc = "time_evolution" /\ t >= NumCells - 1) => NextGrid = current_grid

\* a run from one seed that burned the whole grid, one cell per timestep,
\* and so needed all of its H * W - 1 timesteps
C2_Witness ==
    /\ pc = "time_evolution"
    /\ NumCells >= 3
    /\ t = NumCells - 1
    /\ Cardinality(Burned(SeededGrid)) = 1
    /\ Burned(current_grid) = DOMAIN current_grid
    /\ \E c \in Burned(SeededGrid) :
          \/ c = <<0, 0>>
          \/ c = <<GridShape[1] - 1, GridShape[2] - 1>>
    /\ 1 \in {GridShape[1], GridShape[2]}

\* the fields perturb_weather returns when run directly on the caller's
\* fields with `seed`, entered with the global generator in state r (a fresh
\* generator is in state 0)
Perturbed(r, seed) ==
    LET p == perturb_weather(r, wind_u, wind_v, temp, rh, mc_config, seed)
    IN  [wind_u |-> p.wind_u, wind_v |-> p.wind_v, temp |-> p.temp, rh |-> p.rh]

AllZero(grid) == \A c \in DOMAIN grid : grid[c] = 0

\* C3 as stated: with n_ensemble >= 1, every cell of a returned result has
\* probability and mean_intensity in [0, 1] and uncertainty >= 0.
C3_BoundedOutputs ==
    (result.status = "returned" /\ n_ensemble >= 1)
        => \A c \in Cells(GridShape) :
              /\ 0 <= result.probability[c] /\ result.probability[c] <= Scale
              /\ 0 <= result.mean_intensity[c]
              /\ result.mean_intensity[c] <= Scale
              /\ result.uncertainty[c] >= 0

\* C4: determinism. The calls of run_monte_carlo_ensemble completed on the
\* same inputs returned the same probability, mean_intensity and uncertainty
\* grids, whatever was drawn from the global generator in between.
C4_Determinism ==
    \A a, b \in 1 .. Len(returned) : returned[a] = returned[b]

\* two calls completed, each with two members that the perturbation made
\* differ (a cell burned in one member only)
C4_Witness ==
    /\ Len(returned) = 2
    /\ returned[2].status = "returned"
    /\ \E c \in Cells(GridShape) :
          /\ returned[2].probability[c] > 0
          /\ returned[2].probability[c] < Scale

\* C6 as stated: a call with n_ensemble < 1 ends in an error, never in
\* returned grids.
C6_EmptyEnsembleRaises ==
    (n_ensemble < 1) => result.status # "returned"

\* C7 as stated: a call with negative n_timesteps ends in an error:
\* neither run_baseline_spread nor run_monte_carlo_ensemble returns grids.
C7_NegativeTimestepsRaise ==
    (n_timesteps < 0 /\ n_ensemble >= 1)
        => (pc # "baseline_returned" /\ result.status # "returned")

\* C8: member seeds. The perturb_weather calls of a call in progress are, in
\* order, one per member started, member k-1 with seed base_seed + (k-1) and
\* the caller's unperturbed fields; a returned call has made exactly
\* n_ensemble of them; and the fields a member's simulation runs on are those
\* perturb_weather yields when run directly with that seed.
C8_MemberSeeds ==
    /\ \A k \in 1 .. Len(perturb_calls) :
          perturb_calls[k] =
              [seed |-> base_seed + (k - 1), wind_u |-> wind_u,
               wind_v |-> wind_v, temp |-> temp, rh |-> rh]
    /\ (pc = "mc_loop") => Len(perturb_calls) = i
    /\ (pc \in {"run_baseline_spread", "time_evolution", "baseline_returned"})
          => /\ Len(perturb_calls) = i + 1
             /\ LET direct == Perturbed(0, base_seed + i)
                IN  /\ perturbed = direct
                    /\ bs_args = [wind_u |-> direct.wind_u,
                                  wind_v |-> direct.wind_v,
                                  slope |-> slope,
                                  rh |-> direct.rh]
    /\ (result.status = "returned" /\ n_ensemble >= 0)
          => Len(perturb_calls) = n_ensemble

\* the scenario n_ensemble = 2, base_seed = 100 has returned, having used
\* the seeds 100 and 101 on fields that the two seeds perturb differently
C8_Witness ==
    /\ result.status = "returned"
    /\ n_ensemble = 2
    /\ base_seed = 100
    /\ Len(perturb_calls) = 2
    /\ perturb_calls[1].seed = 100
    /\ perturb_calls[2].seed = 101
    /\ Perturbed(0, 100) # Perturbed(0, 101)

\* C10: zero detections. With no detection, n_ensemble >= 1 and
\* n_timesteps >= 0, a completed call has returned (not raised) grids that
\* are zero in every cell.
C10_ZeroDetections ==
    (hotspots_df = <<>> /\ n_ensemble >= 1 /\ n_timesteps >= 0
     /\ pc = "idle" /\ Len(returned) >= 1)
        => /\ result.status = "returned"
           /\ AllZero(result.probability)
           /\ AllZero(result.mean_intensity)
           /\ AllZero(result.uncertainty)

\* a call without detections has returned after timesteps over a potential
\* field that exceeds the threshold somewhere
C10_Witness ==
    /\ hotspots_df = <<>>
    /\ n_ensemble >= 2
    /\ n_timesteps >= 1
    /\ result.status = "returned"
    /\ \E c \in Cells(GridShape) :
          spread_potential[c] > Get(model_config, "spread_threshold", 300)

\* C5 as stated: a perturb_weather call that has returned in the worker pool
\* holds exactly the fields perturb_weather yields when run alone with its
\* seed, however the statements of the two calls interleaved.
C5_PerturbIsolated ==
    \A w \in DOMAIN workers :
        workers[w].pc = "done" => workers[w].out = Perturbed(0, workers[w].seed)

\* the block of cells within r rings of cell c0, clipped to the grid
Block(c0, r) ==
    {c \in Cells(GridShape) : Abs(c[1] - c0[1]) <= r /\ Abs(c[2] - c0[2]) <= r}

\* the cell the first detection falls in
SeedCell == rowcol(transform, hotspots_df[1].longitude, hotspots_df[1].latitude)

\* C9: in the 10 x 10 scenario the burned region after t timesteps is the
\* block of t rings around the seed, so the 7 x 7 block after 3; the returned
\* probability is 1.0 inside that block and 0.0 outside it, and the returned
\* uncertainty is 0.0 everywhere.
C9_Scenario ==
    /\ (pc = "time_evolution") => Burned(current_grid) = Block(SeedCell, t)
    /\ (result.status = "returned")
          => \A c \in Cells(GridShape) :
                /\ result.probability[c] =
                       (IF c \in Block(SeedCell, 3) THEN Scale ELSE 0)
                /\ result.uncertainty[c] = 0

\* the scenario has returned with the 49 cells of the 7 x 7 block around
\* cell (5, 5) at probability 1.0
C9_Witness ==
    /\ result.status = "returned"
    /\ GridShape = ScenarioShape
    /\ SeedCell = <<5, 5>>
    /\ {c \in Cells(GridShape) : result.probability[c] = Scale}
           = (2 .. 8) \X (2 .. 8)

\* the cell a detection falls in, inside the grid or not
CellOf(hotspot) == rowcol(transform, hotspot.longitude, hotspot.latitude)

\* the detections of the run that fall in a cell of the grid
Placed == {j \in 1 .. Len(hotspots_df) : CellOf(hotspots_df[j]) \in Cells(GridShape)}

\* run_baseline_spread has just seeded its grid
JustSeeded == pc = "time_evolution" /\ t = 0

\* C11: out-of-range detections. The seeded grid has exactly the cells of the
\* call's grid shape; a cell holds seed_strength if some detection of the
\* list, wherever it stands in the list, falls in it, and 0 otherwise: a
\* detection outside [0,H) x [0,W) changes no cell and stops nothing.
C11_OutOfRangeSkipped ==
    JustSeeded
        => /\ DOMAIN current_grid = Cells(GridShape)
           /\ \A c \in Cells(GridShape) :
                 current_grid[c] =
                     (IF \E j \in Placed : CellOf(hotspots_df[j]) = c
                      THEN Get(model_config, "seed_strength", Scale)
                      ELSE 0)

\* a list of three detections, the first and the last outside the grid, has
\* been seeded: the cell of the second one burns, and only that cell
C11_Witness ==
    /\ JustSeeded
    /\ Len(hotspots_df) = 3
    /\ Placed = {2}
    /\ CellOf(hotspots_df[1])[1] < 0
    /\ CellOf(hotspots_df[3])[2] >= GridShape[2]
    /\ Burned(current_grid) = {CellOf(hotspots_df[2])}

\* the list s with x inserted after its first p elements
InsertAt(s, p, x) == SubSeq(s, 1, p) \o <<x>> \o SubSeq(s, p + 1, Len(s))

\* C12: seeding idempotence. Seeding the list with any one of its detections
\* repeated, at any place of the list, gives the grid the run was seeded
\* with; and a cell that two detections of the list fall in holds
\* seed_strength.
C12_SeedingIdempotent ==
    JustSeeded
        => /\ \A j \in 1 .. Len(hotspots_df) : \A p \in 0 .. Len(hotspots_df) :
                 initialize_grid(InsertAt(hotspots_df, p, hotspots_df[j]),
                                 GridShape, transform,
                                 Get(model_config, "seed_strength", Scale))
                     = current_grid
           /\ \A j, k \in Placed :
                 (j # k /\ CellOf(hotspots_df[j]) = CellOf(hotspots_df[k]))
                     => current_grid[CellOf(hotspots_df[j])]
                            = Get(model_config, "seed_strength", Scale)

\* a list has been seeded that holds the same detection twice and a third
\* detection elsewhere in the same cell, with seed_strength 0.7
C12_Witness ==
    /\ JustSeeded
    /\ Len(hotspots_df) = 3
    /\ hotspots_df[1] = hotspots_df[2]
    /\ hotspots_df[3] # hotspots_df[1]
    /\ Placed = {1, 2, 3}
    /\ CellOf(hotspots_df[3]) = CellOf(hotspots_df[1])
    /\ current_grid[CellOf(hotspots_df[1])] = 700

\* the fields member k of the call was simulated on (k = 1 is member 0)
MemberFields(k) == Perturbed(0, base_seed + (k - 1))

\* the spread potential of member k
MemberPotential(k) ==
    compute_spread_potential(MemberFields(k).wind_u, MemberFields(k).wind_v,
                             slope, MemberFields(k).rh, model_config)

\* the FireState of member k after j timesteps
RECURSIVE FireState(_, _)
FireState(k, j) ==
    IF j = 0 THEN SeededGrid
    ELSE propagate_spread(FireState(k, j - 1), MemberPotential(k),
                          Get(model_config, "spread_threshold", 300),
                          Get(model_config, "neighbors", 8))

MaxOf(S) == CHOOSE m \in S : \A x \in S : x <= m

\* the elementwise maximum of member k's FireState over all its timesteps
RunningMax(k) ==
    [c \in Cells(GridShape) |->
        MaxOf({FireState(k, j)[c] : j \in 0 .. Max(n_timesteps, 0)})]

\* C13: probability reduction. In a returned result of n_ensemble >= 1
\* members, every member's slot of the stack holds the running elementwise
\* maximum of that member's FireState over its timesteps, and the probability
\* of a cell is the number of slots > 0 at the cell divided by n_ensemble.
C13_ProbabilityIsFraction ==
    (result.status = "returned" /\ n_ensemble >= 1)
        => /\ \A k \in 1 .. n_ensemble : ensemble_results[k] = RunningMax(k)
           /\ \A c \in Cells(GridShape) :
                 result.probability[c] =
                     (Scale * Cardinality({k \in 1 .. n_ensemble :
                                              ensemble_results[k][c] > 0}))
                     \div n_ensemble

\* a two-member call has returned in which a cell burned in one member only
\* (probability 0.5) and another burned in both
C13_Witness ==
    /\ result.status = "returned"
    /\ n_ensemble = 2
    /\ n_timesteps >= 1
    /\ \E c \in Cells(GridShape) : result.probability[c] = Scale \div 2
    /\ \E c \in Cells(GridShape) : result.probability[c] = Scale

\* the members of the stack all hold the same grid
IdenticalMembers ==
    \A k \in 1 .. Len(ensemble_results) : ensemble_results[k] = ensemble_results[1]

\* C14 as stated: a returned result of n_ensemble >= 1 members that all
\* produced the same grid has uncertainty exactly zero in every cell.
C14_ZeroVariance ==
    (result.status = "returned" /\ n_ensemble >= 1 /\ IdenticalMembers)
        => AllZero(result.uncertainty)

\* C15 as stated: every cell of a returned direction grid is the sentinel -1
\* or a bearing d with 0 <= d < 360, and it is -1 exactly in the cells whose
\* probability is below 0.01.
C15_DirectionRange ==
    (direction # <<>> /\ direction.status = "returned")
        => \A c \in DOMAIN direction.grid :
              /\ \/ direction.grid[c] = 0 - Degree
                 \/ (0 <= direction.grid[c] /\ direction.grid[c] < 360 * Degree)
              /\ (direction.grid[c] = 0 - Degree) <=> (result.probability[c] < 10)

\* C16: base arrays are never written. No step of run_monte_carlo_ensemble
\* changes the caller's wind_u, wind_v, temp, slope or rh, and every member's
\* perturb_weather call is handed the same base fields as the first.
C16_BaseArraysUntouched ==
    [][/\ UNCHANGED <<wind_u, wind_v, temp, slope, rh>>
       /\ \A k \in 1 .. Len(perturb_calls') :
             /\ perturb_calls'[k].wind_u = perturb_calls'[1].wind_u
             /\ perturb_calls'[k].wind_v = perturb_calls'[1].wind_v
             /\ perturb_calls'[k].temp = perturb_calls'[1].temp
             /\ perturb_calls'[k].rh = perturb_calls'[1].rh]_vars

\* a two-member call has returned whose last member ran on wind and humidity
\* fields that differ from the caller's and spread fire beyond the seed
C16_Witness ==
    /\ result.status = "returned"
    /\ n_ensemble = 2
    /\ Len(perturb_calls) = 2
    /\ perturbed.wind_u # wind_u
    /\ perturbed.rh # rh
    /\ n_timesteps >= 1
    /\ Cardinality(Burned(current_grid)) > Cardinality(Burned(SeededGrid))

\* C17: the reduction waits for all members. A call that has returned grids
\* has stored all n_ensemble members, each slot holding that member's
\* completed simulation; a call that ended while a member was being
\* simulated or stored hands the caller an exception and no grid.
C17_ReductionAfterAllMembers ==
    /\ (result.status = "returned")
          => /\ i = n_ensemble
             /\ Len(perturb_calls) = n_ensemble
             /\ \A k \in 1 .. n_ensemble : ensemble_results[k] = RunningMax(k)
    /\ (pc = "idle" /\ Len(returned) >= 1 /\ i < n_ensemble)
          => /\ result.status = "raised"
             /\ DOMAIN result \cap {"probability", "mean_intensity",
                                     "uncertainty"} = {}

\* the second member of a two-member call failed after the first had been
\* stored: the stack is half filled and the caller got the exception
C17_Witness ==
    /\ pc = "idle"
    /\ n_ensemble = 2
    /\ i = 1
    /\ Len(perturb_calls) = 2
    /\ result.status = "raised"
    /\ Burned(ensemble_results[1]) # {}

\* C18: degenerate empty seed. A run in which no detection was placed on the
\* grid (none given, or all skipped) returns all-zero grids and has emitted
\* a log record of warning level or above.
C18_EmptySeedWarns ==
    (pc = "baseline_returned" /\ Placed = {})
        => /\ AllZero(bs_return[1])
           /\ AllZero(bs_return[2])
           /\ \E e \in log : e.level \in {"WARNING", "ERROR", "CRITICAL"}

\* cell b is a neighbour of cell a: one step along a row or a column for
\* neighbors = 4, one step in any of the eight directions otherwise
Adjacent(neighbors, a, b) ==
    IF neighbors = 4
    THEN Abs(a[1] - b[1]) + Abs(a[2] - b[2]) = 1
    ELSE Max(Abs(a[1] - b[1]), Abs(a[2] - b[2])) = 1

\* cell c of the run's grid is next to a burned cell, has a potential above
\* the threshold and is not burned
IsCandidate(c) ==
    /\ \E b \in Burned(current_grid) :
          Adjacent(Get(model_config, "neighbors", 8), b, c)
    /\ spread_potential[c] > Get(model_config, "spread_threshold", 300)
    /\ c \notin Burned(current_grid)

\* a timestep of run_baseline_spread is being taken
TimestepTaken == pc = "time_evolution" /\ t' = t + 1

C20_IntensityFixed ==
    [][TimestepTaken
        => \A c \in Cells(GridShape) :
              /\ current_grid[c] # 0 => current_grid'[c] = current_grid[c]
              /\ SeededGrid[c] # 0 => current_grid'[c] = SeededGrid[c]]_vars

\* two steps on a 1 x 3 grid seeded at (0,0): the seed still holds
\* seed_strength, which is not its potential, (0,1) ignited in the first
\* step and kept its potential while (0,2) ignited in the second
C20_Witness ==
    /\ pc = "time_evolution"
    /\ t = 2
    /\ GridShape = <<1, 3>>
    /\ Get(model_config, "neighbors", 8) = 4
    /\ Burned(SeededGrid) = {<<0, 0>>}
    /\ current_grid[<<0, 0>>] = Get(model_config, "seed_strength", Scale)
    /\ current_grid[<<0, 0>>] # spread_potential[<<0, 0>>]
    /\ current_grid[<<0, 1>>] = spread_potential[<<0, 1>>]
    /\ current_grid[<<0, 2>>] = spread_potential[<<0, 2>>]
    /\ spread_potential[<<0, 1>>] > 0
    /\ spread_potential[<<0, 2>>] > 0

\* the FireState of the run in progress after j timesteps, from its seeds
RECURSIVE GridAfter(_)
GridAfter(j) ==
    IF j = 0 THEN SeededGrid
    ELSE propagate_spread(GridAfter(j - 1), spread_potential,
                          Get(model_config, "spread_threshold", 300),
                          Get(model_config, "neighbors", 8))

\* the elementwise maximum of the run's FireState over timesteps 0 .. j
MaxAfter(j) ==
    [c \in Cells(GridShape) |-> MaxOf({GridAfter(m)[c] : m \in 0 .. j})]

\* C21: running beyond convergence is a no-op. If the FireState after k
\* timesteps is a fixed point of propagate_spread, a run of n_timesteps >= k
\* returns the final grid and the max grid of the run of k timesteps.
C21_NoOpBeyondConvergence ==
    (pc = "baseline_returned")
        => \A k \in 0 .. n_timesteps :
              (GridAfter(k + 1) = GridAfter(k))
                  => bs_return = <<GridAfter(k), MaxAfter(k)>>

\* a run of two timesteps has returned that spread in its first timestep
\* and was at its fixed point in the second
C21_Witness ==
    /\ pc = "baseline_returned"
    /\ n_timesteps = 2
    /\ GridAfter(1) # GridAfter(0)
    /\ GridAfter(2) = GridAfter(1)
    /\ bs_return[1] = GridAfter(1)

\* C22: the running maximum is the FireState. After seeding, after every
\* timestep and at return, max_grid equals current_grid cell for cell, and
\* the two grids returned are the same.
C22_MaxGridIsFireState ==
    /\ (pc = "time_evolution") => max_grid = current_grid
    /\ (pc = "baseline_returned")
          => /\ max_grid = current_grid
             /\ bs_return[2] = bs_return[1]

\* a run has returned whose fire spread beyond its seeds, with the max grid
\* equal to the final grid
C22_Witness ==
    /\ pc = "baseline_returned"
    /\ n_timesteps >= 1
    /\ Burned(SeededGrid) # {}
    /\ Burned(bs_return[1]) # Burned(SeededGrid)
    /\ bs_return[2] = bs_return[1]

\* C23: configurable wind normalisation. With the potential taken from the
\* wind alone (wind_weight 1, the other weights 0), the potential of every
\* cell is clip(wind speed / wind_norm_max, 0, 1), where wind_norm_max is
\* the configured value, 20 when the option is absent.
C23_WindNormMax ==
    (pc \in {"time_evolution", "baseline_returned"})
        => \A c \in Cells(GridShape) :
              spread_potential[c] =
                  clip((sqrt(wind_u[c] * wind_u[c] + wind_v[c] * wind_v[c])
                        * Scale)
                       \div Get(model_config, "wind_norm_max", 20 * Scale),
                       0, Scale)

\* C24: nearest-cell seeding. The seeded grid holds seed_strength in the
\* cells whose (row, col) is the fractional (row, col) of some detection
\* rounded to the nearest integer, and 0 elsewhere.
C24_NearestCell ==
    JustSeeded
        => \A c \in Cells(GridShape) :
              current_grid[c] =
                  (IF \E j \in 1 .. Len(hotspots_df) :
                         c = <<(2 * (transform.f - hotspots_df[j].latitude)
                                  - transform.e) \div (0 - 2 * transform.e),
                               (2 * (hotspots_df[j].longitude - transform.c)
                                  + transform.a) \div (2 * transform.a)>>
                   THEN Get(model_config, "seed_strength", Scale)
                   ELSE 0)

\* the fields member k is simulated on when the call is given the
\* temperature grid tp, all else as in the call in progress
MemberFieldsAt(k, tp) ==
    perturb_weather(0, wind_u, wind_v, tp, rh, mc_config, base_seed + (k - 1))

\* the spread potential of member k under temperature grid tp
MemberPotentialAt(k, tp) ==
    compute_spread_potential(MemberFieldsAt(k, tp).wind_u,
                             MemberFieldsAt(k, tp).wind_v, slope,
                             MemberFieldsAt(k, tp).rh, model_config)

\* the FireState of member k after j timesteps under temperature grid tp
RECURSIVE FireStateAt(_, _, _)
FireStateAt(k, j, tp) ==
    IF j = 0 THEN SeededGrid
    ELSE propagate_spread(FireStateAt(k, j - 1, tp), MemberPotentialAt(k, tp),
                          Get(model_config, "spread_threshold", 300),
                          Get(model_config, "neighbors", 8))

\* the stack of member outputs of the call under temperature grid tp
StackAt(tp) ==
    [k \in 1 .. n_ensemble |->
        [c \in Cells(GridShape) |->
            MaxOf({FireStateAt(k, j, tp)[c] : j \in 0 .. Max(n_timesteps, 0)})]]

\* C25: temperature does not influence the result. The grids a call returns
\* are the grids of the same call on any other temperature grid of the same
\* shape.
C25_TemperatureIgnored ==
    (result.status = "returned" /\ n_ensemble >= 1)
        => \A tp \in TempFields(GridShape) :
              /\ result.probability = probability_of(StackAt(tp), GridShape)
              /\ result.mean_intensity
                     = mean_intensity_of(StackAt(tp), GridShape)
              /\ result.uncertainty = uncertainty_of(StackAt(tp), GridShape)

\* a two-member call on a temperature grid in degrees Celsius has returned;
\* its temperature was perturbed, its fire spread beyond the seed and its
\* two members differ
C25_Witness ==
    /\ result.status = "returned"
    /\ n_ensemble = 2
    /\ temp = Uniform(GridShape, 20 * Scale)
    /\ perturbed.temp # temp
    /\ ensemble_results[1] # ensemble_results[2]
    /\ Burned(SeededGrid) # {}
    /\ \E c \in Cells(GridShape) \ Burned(SeededGrid) :
          result.probability[c] > 0

\* C26: seed cells always burn. In a returned result of n_ensemble >= 1
\* members with seed_strength > 0, every cell in which a detection was
\* placed has probability exactly 1 and mean_intensity equal to the
\* seed_strength its grid holds.
C26_SeedCellsBurn ==
    (result.status = "returned" /\ n_ensemble >= 1
       /\ Get(model_config, "seed_strength", Scale) > 0)
        => \A j \in Placed :
              /\ result.probability[CellOf(hotspots_df[j])] = Scale
              /\ result.mean_intensity[CellOf(hotspots_df[j])]
                     = float32(Get(model_config, "seed_strength", Scale))

\* the cells in which initialize_grid placed a detection
SeedCells == {CellOf(hotspots_df[j]) : j \in Placed}

RECURSIVE LinkedWithin(_)
LinkedWithin(j) ==
    IF j = 0 THEN SeedCells \cap Burned(current_grid)
    ELSE {c \in Burned(current_grid) :
             \E b \in LinkedWithin(j - 1) :
                 b = c \/ Adjacent(Get(model_config, "neighbors", 8), b, c)}

\* the distance between cells a and b that one timestep covers at most once:
\* Manhattan for neighbors = 4, Chebyshev otherwise
Distance(neighbors, a, b) ==
    IF neighbors = 4
    THEN Abs(a[1] - b[1]) + Abs(a[2] - b[2])
    ELSE Max(Abs(a[1] - b[1]), Abs(a[2] - b[2]))

\* C28: spread speed limit and connectivity. After t timesteps every burned
\* cell is linked to a seed cell by a chain of at most t steps between
\* adjacent burned cells, hence within distance t of a seed cell; after
\* zero timesteps the burned set is exactly the set of seed cells.
C28_SpeedLimit ==
    (pc \in {"time_evolution", "baseline_returned"})
        => /\ Burned(current_grid) \subseteq LinkedWithin(t)
           /\ \A c \in Burned(current_grid) :
                 \E b \in SeedCells :
                     Distance(Get(model_config, "neighbors", 8), b, c) <= t
           /\ (t = 0) => (Burned(current_grid) = SeedCells)

\* the FireState after j timesteps of the run in progress had it been
\* configured with `neighbors`, all else equal
RECURSIVE GridWith(_, _)
GridWith(neighbors, j) ==
    IF j = 0 THEN SeededGrid
    ELSE propagate_spread(GridWith(neighbors, j - 1), spread_potential,
                          Get(model_config, "spread_threshold", 300),
                          neighbors)

\* C29: the cross spreads no further than the block. At every timestep the
\* grid of the run is the one computed for its neighbourhood, the burned set
\* for neighbors = 4 is a subset of the burned set for neighbors = 8, and a
\* cell burned in both holds the same value in both.
C29_CrossWithinBlock ==
    (pc \in {"time_evolution", "baseline_returned"})
        => /\ current_grid = GridWith(Get(model_config, "neighbors", 8), t)
           /\ Burned(GridWith(4, t)) \subseteq Burned(GridWith(8, t))
           /\ \A c \in Burned(GridWith(4, t)) :
                 GridWith(4, t)[c] = GridWith(8, t)[c]

\* one timestep of a run with the cross on a 2 x 2 grid: it has spread, and
\* the block would have burned a cell more
C29_Witness ==
    /\ pc = "time_evolution"
    /\ t = 1
    /\ GridShape = <<2, 2>>
    /\ Get(model_config, "neighbors", 8) = 4
    /\ Burned(current_grid) # Burned(SeededGrid)
    /\ Burned(current_grid) # Burned(GridWith(8, t))
    /\ Burned(current_grid) \subseteq Burned(GridWith(8, t))

\* the requests issued so far that failed with a request error
FailedRequests == {k \in 1 .. Len(requests_made) : requests_made[k] \in RequestErrors}

====
